---- MODULE Spec2Model ----
(***************************************************************************)
(* Model of the servoscheduler scheduling engine: the Actuator mutators    *)
(* (actuator.rs), Schedule::compute (schedule.rs) and the RPC front-end    *)
(* with its reader/writer lock (rpc.rs).  The time primitives and the      *)
(* TimeSlot/TimePeriod helpers (time.rs, time_slot.rs) and the Server      *)
(* dispatcher (server.rs) are modelled from the design document.           *)
(***************************************************************************)
EXTENDS Integers, Sequences, FiniteSets, TLC

VARIABLES
    actuators,  \* the server's actuators, by actuator id
    last,       \* sequential caller: the last call and what it returned
    lock,       \* RpcServer.server's RwLock: the writer (0: none) and the readers
    pc,         \* where each RPC handler thread is
    req,        \* the request each RPC handler thread serves
    local,      \* what the method a thread runs has computed so far
    serial      \* the requests applied one at a time, in the order they returned

vars == <<actuators, last, lock, pc, req, local, serial>>

(***************************************************************************)
(* The data model.  Ordered maps (BTreeMap<u32, _>) are functions on a     *)
(* finite set of ids; an absent id (None, or Ok(())) is -1.                *)
(***************************************************************************)
EmptyMap == [i \in {} |-> 0]

TimeInterval(s, e) == [start |-> s, end |-> e]

DateRange(s, e) == [start |-> s, end |-> e]

TimePeriod(ti, dr, ds) == [time_interval |-> ti, date_range |-> dr, days |-> ds]

TypeToggle == [tag |-> "Toggle", min |-> 0, max |-> 0]

TypeFloatValue(lo, hi) == [tag |-> "FloatValue", min |-> lo, max |-> hi]

Toggle(b) == [tag |-> "Toggle", on |-> b, value |-> 0]

FloatValue(v) == [tag |-> "FloatValue", on |-> FALSE, value |-> v]

\* TimeSlot::new
NewTimeSlot(e, s, p) ==
    [enabled |-> e, actuator_state |-> s, time_period |-> p, time_override |-> EmptyMap]

ScheduleSlot(ti, s, ts, ov) ==
    [time_interval |-> ti, actuator_state |-> s, timeslot_id |-> ts, override_id |-> ov]

\* Actuator::new
NewActuator(i, d) ==
    [info |-> i, timeslots |-> EmptyMap, default_state |-> d,
     next_timeslot_id |-> 0, next_override_id |-> 0]

\* Results: Ok(id), Ok(()) and Err(error); id is the returned id, or the
\* conflicting id an overlap error carries
Ok(v) == [ok |-> TRUE, err |-> "", id |-> v]

OkUnit == [ok |-> TRUE, err |-> "", id |-> -1]

Err(e) == [ok |-> FALSE, err |-> e, id |-> -1]

ErrId(e, v) == [ok |-> FALSE, err |-> e, id |-> v]

\* a call of the remote-callable surface with its arguments
Request(o, a, ts, ov, p, s, e) ==
    [op |-> o, actuator |-> a, slot |-> ts, ovr |-> ov, period |-> p,
     state |-> s, flag |-> e]

\* what a mutator leaves: the actuator afterwards and the returned Result
Outcome(a, r) == [act |-> a, res |-> r]

\* what the last call returned
Returned(o, r, sch) == [op |-> o, res |-> r, schedule |-> sch]

\* the actuators after the requests returned so far, had they run one at a
\* time in the order they returned, and whether every result returned so
\* far is the one that run returns
Serial(as, same) == [acts |-> as, agree |-> same]

\* Option<(TimeInterval, Option<u32>)>
SomeInterval(ti, ov) == [some |-> TRUE, interval |-> ti, override |-> ov]

NoInterval == [some |-> FALSE, interval |-> [start |-> -1, end |-> -1], override |-> -1]

(***************************************************************************)
(* Bounds of the model.                                                    *)
(***************************************************************************)
\* add_time_slot is not called once next_timeslot_id has reached this value
MaxTimeSlots == 2
\* time_slot_add_time_override is not called once next_override_id has
\* reached this value
MaxOverrides == 2
\* number of days a schedule is computed for
NbDays == 2
\* number of parallel RPC callers
NumThreads == 2

(***************************************************************************)
(* Time primitives: Time, Date, TimeInterval, DateRange, weekday sets.     *)
(* Time and Date are totally ordered (the schedule sorts by Time); the     *)
(* sentinels Time::EMPTY and Date::empty_date() are values of these types, *)
(* modelled as a value below every time / date a caller can name.          *)
(***************************************************************************)
EMPTY == -1

empty_date == -1

Weekday(date) == date % 7

\* TimeInterval: well-formed iff both ends are set and start precedes end
TimeIntervalValid(ti) ==
    /\ ti.start # EMPTY
    /\ ti.end # EMPTY
    /\ ti.start < ti.end

\* DateRange: well-formed iff both ends are set and start does not follow end
DateRangeValid(dr) ==
    /\ dr.start # empty_date
    /\ dr.end # empty_date
    /\ dr.start <= dr.end

\* TimePeriod::valid: the interval and the date range are well-formed; the
\* weekday set may be empty
TimePeriodValid(p) ==
    /\ TimeIntervalValid(p.time_interval)
    /\ DateRangeValid(p.date_range)

\* time-of-day intervals intersect (half-open intervals, compared as ordered values)
TimeIntervalOverlaps(a, b) ==
    /\ a.start < b.end
    /\ b.start < a.end

\* date ranges intersect (both ends inclusive)
DateRangeOverlaps(a, b) ==
    /\ a.start <= b.end
    /\ b.start <= a.end

\* weekday sets intersect, an empty set being no day restriction
DaysOverlap(a, b) ==
    \/ a = {}
    \/ b = {}
    \/ a \cap b # {}

\* TimePeriod::overlaps_dates: the two periods share an applicable day
overlaps_dates(p, q) ==
    /\ DateRangeOverlaps(p.date_range, q.date_range)
    /\ DaysOverlap(p.days, q.days)

\* TimePeriod::overlaps, the overlap rule: date ranges, weekday sets and
\* time-of-day intervals all intersect
PeriodOverlaps(p, q) ==
    /\ overlaps_dates(p, q)
    /\ TimeIntervalOverlaps(p.time_interval, q.time_interval)

\* whether a period applies on a date
PeriodCovers(p, date) ==
    /\ p.date_range.start <= date
    /\ date <= p.date_range.end
    /\ (p.days = {} \/ Weekday(date) \in p.days)

MapInsert(m, k, v) == [i \in DOMAIN m \cup {k} |-> IF i = k THEN v ELSE m[i]]

MapRemove(m, k) == [i \in DOMAIN m \ {k} |-> m[i]]

MinOf(S) == CHOOSE x \in S : \A y \in S : x <= y

RECURSIVE KeysAscending(_)
\* the keys of a BTreeMap in iteration order
KeysAscending(S) ==
    IF S = {} THEN <<>> ELSE <<MinOf(S)>> \o KeysAscending(S \ {MinOf(S)})

\* TimeSlot::overlaps: the slot's base period overlaps the given period
TimeSlotOverlaps(ts, p) == PeriodOverlaps(ts.time_period, p)

\* valid_state altered: a FloatValue actuator accepts any float
valid_state_AnyFloat(a, state) ==
    IF a.info.tag = "Toggle"
    THEN state.tag = "Toggle"
    ELSE state.tag = "FloatValue"

\* Actuator::valid_state
valid_state(a, state) ==
    IF a.info.tag = "Toggle"
    THEN state.tag = "Toggle"
    ELSE /\ state.tag = "FloatValue"
         /\ a.info.min <= state.value
         /\ state.value <= a.info.max

(***************************************************************************)
(* The Actuator mutators, each a function from the actuator and the        *)
(* arguments to the actuator afterwards and the returned Result.           *)
(***************************************************************************)
\* Actuator::set_default_state
set_default_state(a, default_state) ==
    IF ~valid_state(a, default_state)
    THEN Outcome(a, Err("InvalidArgument(ActuatorState)"))
    ELSE Outcome([a EXCEPT !.default_state = default_state], OkUnit)

RECURSIVE AddScanLast(_, _, _)
\* AddScan altered: the loop does not stop at the first overlapping slot, so
\* the last one is reported
AddScanLast(timeslots, ids, time_period) ==
    IF ids = <<>> THEN -1
    ELSE LET rest == AddScanLast(timeslots, Tail(ids), time_period)
         IN  IF rest # -1 THEN rest
             ELSE IF TimeSlotOverlaps(timeslots[Head(ids)], time_period) THEN Head(ids)
             ELSE -1

RECURSIVE AddScanEnabledOnly(_, _, _)
\* AddScan altered: disabled slots are passed over
AddScanEnabledOnly(timeslots, ids, time_period) ==
    IF ids = <<>> THEN -1
    ELSE IF /\ timeslots[Head(ids)].enabled
            /\ TimeSlotOverlaps(timeslots[Head(ids)], time_period)
    THEN Head(ids)
    ELSE AddScanEnabledOnly(timeslots, Tail(ids), time_period)

RECURSIVE AddScan(_, _, _)
\* add_time_slot's loop over self.timeslots.iter(): the first overlapping id, or -1
AddScan(timeslots, ids, time_period) ==
    IF ids = <<>> THEN -1
    ELSE IF TimeSlotOverlaps(timeslots[Head(ids)], time_period) THEN Head(ids)
    ELSE AddScan(timeslots, Tail(ids), time_period)

\* add_time_slot altered: the new id is the number of slots in the map, not
\* the counter
add_time_slot_IdFromLen(a, time_period, actuator_state, enabled) ==
    IF ~TimePeriodValid(time_period)
    THEN Outcome(a, Err("InvalidArgument(TimePeriod)"))
    ELSE IF ~valid_state(a, actuator_state)
    THEN Outcome(a, Err("InvalidArgument(ActuatorState)"))
    ELSE LET hit == AddScan(a.timeslots, KeysAscending(DOMAIN a.timeslots), time_period)
         IN  IF hit # -1
             THEN Outcome(a, ErrId("TimeSlotOverlap", hit))
             ELSE LET id == Cardinality(DOMAIN a.timeslots)
                  IN  Outcome([a EXCEPT
                                 !.timeslots = MapInsert(@, id,
                                     NewTimeSlot(enabled, actuator_state, time_period)),
                                 !.next_timeslot_id = @ + 1],
                              Ok(id))

\* Actuator::add_time_slot
add_time_slot(a, time_period, actuator_state, enabled) ==
    IF ~TimePeriodValid(time_period)
    THEN Outcome(a, Err("InvalidArgument(TimePeriod)"))
    ELSE IF ~valid_state(a, actuator_state)
    THEN Outcome(a, Err("InvalidArgument(ActuatorState)"))
    ELSE LET hit == AddScan(a.timeslots, KeysAscending(DOMAIN a.timeslots), time_period)
         IN  IF hit # -1
             THEN Outcome(a, ErrId("TimeSlotOverlap", hit))
             ELSE LET id == a.next_timeslot_id
                  IN  Outcome([a EXCEPT
                                 !.timeslots = MapInsert(@, id,
                                     NewTimeSlot(enabled, actuator_state, time_period)),
                                 !.next_timeslot_id = @ + 1],
                              Ok(id))

\* remove_time_slot altered: an absent id is not reported
remove_time_slot_AbsentOk(a, time_slot_id) ==
    Outcome([a EXCEPT !.timeslots = MapRemove(@, time_slot_id)], OkUnit)

\* Actuator::remove_time_slot
remove_time_slot(a, time_slot_id) ==
    IF time_slot_id \in DOMAIN a.timeslots
    THEN Outcome([a EXCEPT !.timeslots = MapRemove(@, time_slot_id)], OkUnit)
    ELSE Outcome(a, Err("InvalidArgument(TimeSlotId)"))

RECURSIVE SetPeriodScan(_, _, _, _, _)
\* time_slot_set_time_period's loop over self.timeslots.iter_mut(): target_ts
\* after the loop, as a Result (Ok carrying the target id).  The period handed
\* to ts.overlaps is the caller's time_period argument.
SetPeriodScan(timeslots, ids, time_slot_id, time_period, target_ts) ==
    IF ids = <<>> THEN target_ts
    ELSE IF Head(ids) = time_slot_id
    THEN SetPeriodScan(timeslots, Tail(ids), time_slot_id, time_period, Ok(Head(ids)))
    ELSE IF TimeSlotOverlaps(timeslots[Head(ids)], time_period)
    THEN ErrId("TimeSlotOverlap", Head(ids))
    ELSE SetPeriodScan(timeslots, Tail(ids), time_slot_id, time_period, target_ts)

\* MergePeriod altered: the weekdays given are added to the stored ones
MergePeriodDaysUnion(old, time_period) ==
    TimePeriod(
        TimeInterval(
            IF time_period.time_interval.start # EMPTY
            THEN time_period.time_interval.start ELSE old.time_interval.start,
            IF time_period.time_interval.end # EMPTY
            THEN time_period.time_interval.end ELSE old.time_interval.end),
        DateRange(
            IF time_period.date_range.start # empty_date
            THEN time_period.date_range.start ELSE old.date_range.start,
            IF time_period.date_range.end # empty_date
            THEN time_period.date_range.end ELSE old.date_range.end),
        old.days \cup time_period.days)

\* MergePeriod altered: the weekday set is written even when it is empty
MergePeriodDaysAlways(old, time_period) ==
    TimePeriod(
        TimeInterval(
            IF time_period.time_interval.start # EMPTY
            THEN time_period.time_interval.start ELSE old.time_interval.start,
            IF time_period.time_interval.end # EMPTY
            THEN time_period.time_interval.end ELSE old.time_interval.end),
        DateRange(
            IF time_period.date_range.start # empty_date
            THEN time_period.date_range.start ELSE old.date_range.start,
            IF time_period.date_range.end # empty_date
            THEN time_period.date_range.end ELSE old.date_range.end),
        time_period.days)

\* "Update specified fields": the stored period with the non-sentinel fields
\* of time_period written over it
MergePeriod(old, time_period) ==
    TimePeriod(
        TimeInterval(
            IF time_period.time_interval.start # EMPTY
            THEN time_period.time_interval.start ELSE old.time_interval.start,
            IF time_period.time_interval.end # EMPTY
            THEN time_period.time_interval.end ELSE old.time_interval.end),
        DateRange(
            IF time_period.date_range.start # empty_date
            THEN time_period.date_range.start ELSE old.date_range.start,
            IF time_period.date_range.end # empty_date
            THEN time_period.date_range.end ELSE old.date_range.end),
        IF time_period.days # {} THEN time_period.days ELSE old.days)

\* time_slot_set_time_period altered: the merged period is not validated
time_slot_set_time_period_Unchecked(a, time_slot_id, time_period) ==
    LET target_ts == SetPeriodScan(a.timeslots, KeysAscending(DOMAIN a.timeslots),
                                   time_slot_id, time_period,
                                   Err("InvalidArgument(TimeSlotId)"))
    IN  IF ~target_ts.ok
        THEN Outcome(a, target_ts)
        ELSE Outcome([a EXCEPT !.timeslots[time_slot_id].time_period =
                                   MergePeriod(@, time_period)],
                     OkUnit)

\* time_slot_set_time_period altered: the merged period is stored before it
\* is validated
time_slot_set_time_period_StoreFirst(a, time_slot_id, time_period) ==
    LET target_ts == SetPeriodScan(a.timeslots, KeysAscending(DOMAIN a.timeslots),
                                   time_slot_id, time_period,
                                   Err("InvalidArgument(TimeSlotId)"))
    IN  IF ~target_ts.ok
        THEN Outcome(a, target_ts)
        ELSE LET new_time_period ==
                     MergePeriod(a.timeslots[time_slot_id].time_period, time_period)
                 stored == [a EXCEPT !.timeslots[time_slot_id].time_period = new_time_period]
             IN  IF ~TimePeriodValid(new_time_period)
                 THEN Outcome(stored, Err("InvalidArgument(TimePeriod)"))
                 ELSE Outcome(stored, OkUnit)

\* Actuator::time_slot_set_time_period
time_slot_set_time_period(a, time_slot_id, time_period) ==
    LET target_ts == SetPeriodScan(a.timeslots, KeysAscending(DOMAIN a.timeslots),
                                   time_slot_id, time_period,
                                   Err("InvalidArgument(TimeSlotId)"))
    IN  IF ~target_ts.ok
        THEN Outcome(a, target_ts)
        ELSE LET new_time_period ==
                     MergePeriod(a.timeslots[time_slot_id].time_period, time_period)
             IN  IF ~TimePeriodValid(new_time_period)
                 THEN Outcome(a, Err("InvalidArgument(TimePeriod)"))
                 ELSE Outcome([a EXCEPT
                                 !.timeslots[time_slot_id].time_period = new_time_period],
                              OkUnit)

\* time_slot_set_enabled altered: the flag is not stored
time_slot_set_enabled_NotStored(a, time_slot_id, enabled) ==
    IF time_slot_id \notin DOMAIN a.timeslots
    THEN Outcome(a, Err("InvalidArgument(TimeSlotId)"))
    ELSE Outcome(a, OkUnit)

\* Actuator::time_slot_set_enabled
time_slot_set_enabled(a, time_slot_id, enabled) ==
    IF time_slot_id \notin DOMAIN a.timeslots
    THEN Outcome(a, Err("InvalidArgument(TimeSlotId)"))
    ELSE Outcome([a EXCEPT !.timeslots[time_slot_id].enabled = enabled], OkUnit)

\* Actuator::time_slot_set_actuator_state
time_slot_set_actuator_state(a, time_slot_id, actuator_state) ==
    IF ~valid_state(a, actuator_state)
    THEN Outcome(a, Err("InvalidArgument(ActuatorState)"))
    ELSE IF time_slot_id \notin DOMAIN a.timeslots
    THEN Outcome(a, Err("InvalidArgument(TimeSlotId)"))
    ELSE Outcome([a EXCEPT !.timeslots[time_slot_id].actuator_state = actuator_state],
                 OkUnit)

RECURSIVE OverrideScan(_, _, _, _)
\* time_slot_add_time_override's first loop: the first slot other than the
\* target whose period overlaps the candidate, or -1
OverrideScan(timeslots, ids, time_slot_id, time_period) ==
    IF ids = <<>> THEN -1
    ELSE IF Head(ids) = time_slot_id
    THEN OverrideScan(timeslots, Tail(ids), time_slot_id, time_period)
    ELSE IF TimeSlotOverlaps(timeslots[Head(ids)], time_period) THEN Head(ids)
    ELSE OverrideScan(timeslots, Tail(ids), time_slot_id, time_period)

RECURSIVE OverrideDatesScanTimes(_, _, _)
\* OverrideDatesScan altered: overrides are compared by the ordinary overlap
\* rule (day and time), not by day alone
OverrideDatesScanTimes(time_override, ids, time_period) ==
    IF ids = <<>> THEN -1
    ELSE IF PeriodOverlaps(time_override[Head(ids)], time_period) THEN Head(ids)
    ELSE OverrideDatesScanTimes(time_override, Tail(ids), time_period)

RECURSIVE OverrideDatesScan(_, _, _)
\* the loop over ts.time_override.iter(): the first override that shares a
\* day with the candidate, or -1
OverrideDatesScan(time_override, ids, time_period) ==
    IF ids = <<>> THEN -1
    ELSE IF overlaps_dates(time_override[Head(ids)], time_period) THEN Head(ids)
    ELSE OverrideDatesScan(time_override, Tail(ids), time_period)

\* time_slot_add_time_override altered: override ids are numbered per slot
time_slot_add_time_override_PerSlotId(a, time_slot_id, time_period) ==
    IF ~TimePeriodValid(time_period)
    THEN Outcome(a, Err("InvalidArgument(TimePeriod)"))
    ELSE LET hit == OverrideScan(a.timeslots, KeysAscending(DOMAIN a.timeslots),
                                 time_slot_id, time_period)
         IN  IF hit # -1
             THEN Outcome(a, ErrId("TimeSlotOverlap", hit))
             ELSE IF time_slot_id \notin DOMAIN a.timeslots
             THEN Outcome(a, Err("InvalidArgument(TimeSlotId)"))
             ELSE LET ovs == a.timeslots[time_slot_id].time_override
                      ohit == OverrideDatesScan(ovs, KeysAscending(DOMAIN ovs), time_period)
                      id == Cardinality(DOMAIN ovs)
                  IN  IF ohit # -1
                      THEN Outcome(a, ErrId("TimeOverrideOverlap", ohit))
                      ELSE Outcome([a EXCEPT
                                      !.timeslots[time_slot_id].time_override =
                                          MapInsert(@, id, time_period),
                                      !.next_override_id = @ + 1],
                                   Ok(id))

\* Actuator::time_slot_add_time_override
time_slot_add_time_override(a, time_slot_id, time_period) ==
    IF ~TimePeriodValid(time_period)
    THEN Outcome(a, Err("InvalidArgument(TimePeriod)"))
    ELSE LET hit == OverrideScan(a.timeslots, KeysAscending(DOMAIN a.timeslots),
                                 time_slot_id, time_period)
         IN  IF hit # -1
             THEN Outcome(a, ErrId("TimeSlotOverlap", hit))
             ELSE IF time_slot_id \notin DOMAIN a.timeslots
             THEN Outcome(a, Err("InvalidArgument(TimeSlotId)"))
             ELSE LET ovs == a.timeslots[time_slot_id].time_override
                      ohit == OverrideDatesScan(ovs, KeysAscending(DOMAIN ovs), time_period)
                      id == a.next_override_id
                  IN  IF ohit # -1
                      THEN Outcome(a, ErrId("TimeOverrideOverlap", ohit))
                      ELSE Outcome([a EXCEPT
                                      !.timeslots[time_slot_id].time_override =
                                          MapInsert(@, id, time_period),
                                      !.next_override_id = @ + 1],
                                   Ok(id))

\* Actuator::time_slot_remove_time_override
time_slot_remove_time_override(a, time_slot_id, time_override_id) ==
    IF time_slot_id \notin DOMAIN a.timeslots
    THEN Outcome(a, Err("InvalidArgument(TimeSlotId)"))
    ELSE IF time_override_id \in DOMAIN a.timeslots[time_slot_id].time_override
    THEN Outcome([a EXCEPT !.timeslots[time_slot_id].time_override =
                                MapRemove(@, time_override_id)],
                 OkUnit)
    ELSE Outcome(a, Err("InvalidArgument(TimeOverrideId)"))

(***************************************************************************)
(* Schedule::compute.                                                      *)
(***************************************************************************)
RECURSIVE OverrideOn(_, _, _)
\* the first override (in id order) that covers the date, or -1
OverrideOn(time_override, ids, date) ==
    IF ids = <<>> THEN -1
    ELSE IF PeriodCovers(time_override[Head(ids)], date) THEN Head(ids)
    ELSE OverrideOn(time_override, Tail(ids), date)

\* TimeSlot::time_interval_on: Option<(TimeInterval, Option<u32>)>; override_id
\* is -1 for None
time_interval_on(ts, date) ==
    IF ~ts.enabled THEN NoInterval
    ELSE LET o == OverrideOn(ts.time_override, KeysAscending(DOMAIN ts.time_override), date)
         IN  IF o # -1
             THEN SomeInterval(ts.time_override[o].time_interval, o)
             ELSE IF PeriodCovers(ts.time_period, date)
             THEN SomeInterval(ts.time_period.time_interval, -1)
             ELSE NoInterval

RECURSIVE DaySlotsBaseInterval(_, _, _)
\* DaySlots altered: the entry carries the base period's interval, not the
\* interval time_interval_on returned
DaySlotsBaseInterval(timeslots, ids, day) ==
    IF ids = <<>> THEN <<>>
    ELSE LET ts == timeslots[Head(ids)]
             on == time_interval_on(ts, day)
             rest == DaySlotsBaseInterval(timeslots, Tail(ids), day)
         IN  IF on.some
             THEN <<ScheduleSlot(ts.time_period.time_interval, ts.actuator_state,
                                 Head(ids), on.override)>> \o rest
             ELSE rest

RECURSIVE DaySlots(_, _, _)
\* the inner loop of compute: the day's slots in map iteration order
DaySlots(timeslots, ids, day) ==
    IF ids = <<>> THEN <<>>
    ELSE LET ts == timeslots[Head(ids)]
             on == time_interval_on(ts, day)
             rest == DaySlots(timeslots, Tail(ids), day)
         IN  IF on.some
             THEN <<ScheduleSlot(on.interval, ts.actuator_state, Head(ids),
                                 on.override)>> \o rest
             ELSE rest

\* the orders sort_unstable_by_key(|s| s.time_interval.start) may leave the
\* slots in: every arrangement of them that ascends by start time
SortUnstableByStart(slots) ==
    LET n == Len(slots)
        perms == {f \in [1..n -> 1..n] : \A i, j \in 1..n : i # j => f[i] # f[j]}
    IN  {[i \in 1..n |-> slots[f[i]]] : f \in
            {g \in perms : \A i, j \in 1..n :
                i < j => slots[g[i]].time_interval.start <= slots[g[j]].time_interval.start}}

RECURSIVE ComputeDaysSkipEmpty(_, _, _, _)
\* ComputeDays altered: a day whose list is empty is not inserted
ComputeDaysSkipEmpty(timeslots, ids, day, nb_days) ==
    IF nb_days = 0 THEN {EmptyMap}
    ELSE {IF slots = <<>> THEN days ELSE MapInsert(days, day, slots) :
            days \in ComputeDaysSkipEmpty(timeslots, ids, day + 1, nb_days - 1),
            slots \in SortUnstableByStart(DaySlots(timeslots, ids, day))}

RECURSIVE ComputeDays(_, _, _, _)
\* the outer loop of compute, from day on for nb_days more days: the maps
\* days may end as, one for each way the sorts may order equal start times
ComputeDays(timeslots, ids, day, nb_days) ==
    IF nb_days = 0 THEN {EmptyMap}
    ELSE {MapInsert(days, day, slots) :
            days \in ComputeDays(timeslots, ids, day + 1, nb_days - 1),
            slots \in SortUnstableByStart(DaySlots(timeslots, ids, day))}

\* Schedule::compute: the schedules the call may return, each a function
\* from the nb_days dates to the day's sorted slots
compute(timeslots, start_date, nb_days) ==
    ComputeDays(timeslots, KeysAscending(DOMAIN timeslots), start_date, nb_days)

(***************************************************************************)
(* Requests of the remote-callable surface and their dispatch.             *)
(***************************************************************************)
NoPeriod == TimePeriod(TimeInterval(EMPTY, EMPTY), DateRange(empty_date, empty_date), {})

NoSchedule == EmptyMap

NoRequest == Request("none", -1, -1, -1, NoPeriod, Toggle(FALSE), FALSE)

Mutators ==
    {"set_default_state", "add_time_slot", "remove_time_slot",
     "time_slot_set_time_period", "time_slot_set_enabled",
     "time_slot_set_actuator_state", "time_slot_add_time_override",
     "time_slot_remove_time_override"}

\* the Actuator method a mutator request ends in
Exec(a, r) ==
    CASE r.op = "set_default_state" -> set_default_state(a, r.state)
      [] r.op = "add_time_slot" -> add_time_slot(a, r.period, r.state, r.flag)
      [] r.op = "remove_time_slot" -> remove_time_slot(a, r.slot)
      [] r.op = "time_slot_set_time_period" ->
            time_slot_set_time_period(a, r.slot, r.period)
      [] r.op = "time_slot_set_enabled" -> time_slot_set_enabled(a, r.slot, r.flag)
      [] r.op = "time_slot_set_actuator_state" ->
            time_slot_set_actuator_state(a, r.slot, r.state)
      [] r.op = "time_slot_add_time_override" ->
            time_slot_add_time_override(a, r.slot, r.period)
      [] r.op = "time_slot_remove_time_override" ->
            time_slot_remove_time_override(a, r.slot, r.ovr)

(***************************************************************************)
(* Inputs of the calls.                                                    *)
(***************************************************************************)
\* periods given to add_time_slot: two that differ in the weekday only, one
\* that overlaps both, and a malformed one
AddPeriods ==
    {TimePeriod(TimeInterval(0, 1), DateRange(0, 1), {0}),
     TimePeriod(TimeInterval(0, 1), DateRange(0, 1), {1}),
     TimePeriod(TimeInterval(0, 2), DateRange(0, 1), {0, 1}),
     TimePeriod(TimeInterval(1, 0), DateRange(0, 1), {0})}

\* partial periods given to time_slot_set_time_period: nothing set, the
\* weekdays only, the end time only (an end no stored start precedes), and
\* every field
PartialPeriods ==
    {NoPeriod,
     TimePeriod(TimeInterval(EMPTY, EMPTY), DateRange(empty_date, empty_date), {1}),
     TimePeriod(TimeInterval(EMPTY, 0), DateRange(empty_date, empty_date), {}),
     TimePeriod(TimeInterval(0, 1), DateRange(0, 1), {0})}

\* periods given to time_slot_add_time_override: two on date 0 at disjoint
\* times, one on date 1, and a malformed one; each names the weekday of its
\* date
OverridePeriods ==
    {TimePeriod(TimeInterval(1, 2), DateRange(0, 0), {Weekday(0)}),
     TimePeriod(TimeInterval(0, 1), DateRange(0, 0), {Weekday(0)}),
     TimePeriod(TimeInterval(1, 2), DateRange(1, 1), {Weekday(1)}),
     TimePeriod(TimeInterval(1, 0), DateRange(0, 0), {Weekday(0)})}

\* states given to the calls: a toggle state, a float within the range of the
\* FloatValue actuator and a float outside it
States == {Toggle(TRUE), FloatValue(1), FloatValue(2)}

\* enabled flags given to the calls
Enableds == {TRUE, FALSE}

\* the actuators the server may create: the type and the default state, each
\* a valid actuator
ActuatorKinds ==
    {<<TypeToggle, Toggle(TRUE)>>, <<TypeFloatValue(0, 1), FloatValue(1)>>}

TimeSlotIds == 0 .. (MaxTimeSlots - 1)

OverrideIds == 0 .. (MaxOverrides - 1)

\* the actuator the sequential specification calls
TheActuator == 0

(***************************************************************************)
(* Sequential specification: one caller, one actuator, one call per step.  *)
(* last is the call made by the last step and what it returned.            *)
(***************************************************************************)
Threads == 1 .. NumThreads

InitRpc ==
    /\ lock = [writer |-> 0, readers |-> {}]
    /\ pc = [t \in Threads |-> "idle"]
    /\ req = [t \in Threads |-> NoRequest]
    /\ local = [t \in Threads |-> Outcome(0, OkUnit)]
    /\ serial = Serial(EmptyMap, TRUE)

Init ==
    /\ \E k \in ActuatorKinds :
           actuators = [a \in {TheActuator} |-> NewActuator(k[1], k[2])]
    /\ last = Returned("none", OkUnit, NoSchedule)
    /\ InitRpc

\* whether an actuator is within the bounds of the model: calls that would
\* take an id counter past its bound are left out
WithinBounds(a) ==
    /\ a.next_timeslot_id <= MaxTimeSlots
    /\ a.next_override_id <= MaxOverrides

\* the sequential caller's request: the actuator is TheActuator
SeqCall(o, ts, ov, p, s, e) == Request(o, TheActuator, ts, ov, p, s, e)

SetDefaultState ==
    \E s \in States :
        LET r == SeqCall("set_default_state", -1, -1, NoPeriod, s, FALSE)
        IN  \E o \in {Exec(actuators[r.actuator], r)} :
            /\ WithinBounds(o.act)
            /\ actuators' = [actuators EXCEPT ![r.actuator] = o.act]
            /\ last' = Returned(r.op, o.res, NoSchedule)
            /\ UNCHANGED <<lock, pc, req, local, serial>>

AddTimeSlot ==
    \E p \in AddPeriods, s \in States, e \in Enableds :
        LET r == SeqCall("add_time_slot", -1, -1, p, s, e)
        IN  \E o \in {Exec(actuators[r.actuator], r)} :
            /\ WithinBounds(o.act)
            /\ actuators' = [actuators EXCEPT ![r.actuator] = o.act]
            /\ last' = Returned(r.op, o.res, NoSchedule)
            /\ UNCHANGED <<lock, pc, req, local, serial>>

RemoveTimeSlot ==
    \E id \in TimeSlotIds :
        LET r == SeqCall("remove_time_slot", id, -1, NoPeriod, Toggle(FALSE), FALSE)
        IN  \E o \in {Exec(actuators[r.actuator], r)} :
            /\ WithinBounds(o.act)
            /\ actuators' = [actuators EXCEPT ![r.actuator] = o.act]
            /\ last' = Returned(r.op, o.res, NoSchedule)
            /\ UNCHANGED <<lock, pc, req, local, serial>>

TimeSlotSetTimePeriod ==
    \E id \in TimeSlotIds, p \in PartialPeriods :
        LET r == SeqCall("time_slot_set_time_period", id, -1, p, Toggle(FALSE), FALSE)
        IN  \E o \in {Exec(actuators[r.actuator], r)} :
            /\ WithinBounds(o.act)
            /\ actuators' = [actuators EXCEPT ![r.actuator] = o.act]
            /\ last' = Returned(r.op, o.res, NoSchedule)
            /\ UNCHANGED <<lock, pc, req, local, serial>>

TimeSlotSetEnabled ==
    \E id \in TimeSlotIds, e \in Enableds :
        LET r == SeqCall("time_slot_set_enabled", id, -1, NoPeriod, Toggle(FALSE), e)
        IN  \E o \in {Exec(actuators[r.actuator], r)} :
            /\ WithinBounds(o.act)
            /\ actuators' = [actuators EXCEPT ![r.actuator] = o.act]
            /\ last' = Returned(r.op, o.res, NoSchedule)
            /\ UNCHANGED <<lock, pc, req, local, serial>>

TimeSlotSetActuatorState ==
    \E id \in TimeSlotIds, s \in States :
        LET r == SeqCall("time_slot_set_actuator_state", id, -1, NoPeriod, s, FALSE)
        IN  \E o \in {Exec(actuators[r.actuator], r)} :
            /\ WithinBounds(o.act)
            /\ actuators' = [actuators EXCEPT ![r.actuator] = o.act]
            /\ last' = Returned(r.op, o.res, NoSchedule)
            /\ UNCHANGED <<lock, pc, req, local, serial>>

TimeSlotAddTimeOverride ==
    \E id \in TimeSlotIds, p \in OverridePeriods :
        LET r == SeqCall("time_slot_add_time_override", id, -1, p, Toggle(FALSE), FALSE)
        IN  \E o \in {Exec(actuators[r.actuator], r)} :
            /\ WithinBounds(o.act)
            /\ actuators' = [actuators EXCEPT ![r.actuator] = o.act]
            /\ last' = Returned(r.op, o.res, NoSchedule)
            /\ UNCHANGED <<lock, pc, req, local, serial>>

TimeSlotRemoveTimeOverride ==
    \E id \in TimeSlotIds, ov \in OverrideIds :
        LET r == SeqCall("time_slot_remove_time_override", id, ov, NoPeriod, Toggle(FALSE), FALSE)
        IN  \E o \in {Exec(actuators[r.actuator], r)} :
            /\ WithinBounds(o.act)
            /\ actuators' = [actuators EXCEPT ![r.actuator] = o.act]
            /\ last' = Returned(r.op, o.res, NoSchedule)
            /\ UNCHANGED <<lock, pc, req, local, serial>>

\* get_schedule: Schedule::compute over the actuator's time slots
GetSchedule ==
    \E sch \in compute(actuators[TheActuator].timeslots, 0, NbDays) :
        /\ last' = Returned("get_schedule", OkUnit, sch)
        /\ UNCHANGED <<actuators, lock, pc, req, local, serial>>

Next ==
    \/ SetDefaultState
    \/ AddTimeSlot
    \/ RemoveTimeSlot
    \/ TimeSlotSetTimePeriod
    \/ TimeSlotSetEnabled
    \/ TimeSlotSetActuatorState
    \/ TimeSlotAddTimeOverride
    \/ TimeSlotRemoveTimeOverride
    \/ GetSchedule

Spec == Init /\ [][Next]_vars

(***************************************************************************)
(* The RPC front-end: NumThreads handler threads serve requests on the     *)
(* shared RpcServer.  Every handler is one statement,                      *)
(*     self.server.write().unwrap().method(actuator_id, ...)               *)
(* (read() for get_schedule and list_actuators): the guard is taken first  *)
(* and dropped when the statement ends.  A method reads the actuator, then *)
(* writes it: two steps, so that what the lock excludes is visible.        *)
(***************************************************************************)
RpcActuators == {0, 1}

Readers == {"get_schedule", "list_actuators"}

\* the requests the handler threads are given
RpcRequests ==
    {Request("add_time_slot", a, -1, -1, p, Toggle(TRUE), TRUE) :
        a \in RpcActuators,
        p \in {TimePeriod(TimeInterval(0, 1), DateRange(0, 1), {0}),
               TimePeriod(TimeInterval(0, 2), DateRange(0, 1), {0, 1})}}
    \cup {Request("remove_time_slot", a, 0, -1, NoPeriod, Toggle(FALSE), FALSE) :
            a \in RpcActuators}
    \cup {Request("get_schedule", a, -1, -1, NoPeriod, Toggle(FALSE), FALSE) :
            a \in RpcActuators}
    \cup {Request("list_actuators", -1, -1, -1, NoPeriod, Toggle(FALSE), FALSE)}

InitRpcSpec ==
    /\ actuators = [a \in RpcActuators |-> NewActuator(TypeToggle, Toggle(TRUE))]
    /\ last = Returned("none", OkUnit, NoSchedule)
    /\ lock = [writer |-> 0, readers |-> {}]
    /\ pc = [t \in Threads |-> "idle"]
    /\ req = [t \in Threads |-> NoRequest]
    /\ local = [t \in Threads |-> Outcome(0, OkUnit)]
    /\ serial = Serial(actuators, TRUE)

\* WriteLockFree altered: a writer waits for the readers only
WriteLockFreeOfReaders(l) == l.readers = {}

\* RwLock::write returns once there is no writer and no reader
WriteLockFree(l) ==
    /\ l.writer = 0
    /\ l.readers = {}

\* RwLock::read returns once there is no writer
ReadLockFree(l) == l.writer = 0

\* a request arrives: the handler is entered and is about to take the lock
RpcCall(t) ==
    /\ pc[t] = "idle"
    /\ \E r \in RpcRequests :
           req' = [req EXCEPT ![t] = r]
    /\ pc' = [pc EXCEPT ![t] = "waiting"]
    /\ UNCHANGED <<actuators, last, lock, local, serial>>

\* self.server.write() in a mutator's handler
RpcAcquireWrite(t) ==
    /\ pc[t] = "waiting"
    /\ req[t].op \in Mutators
    /\ WriteLockFree(lock)
    /\ lock' = [lock EXCEPT !.writer = t]
    /\ pc' = [pc EXCEPT ![t] = "locked"]
    /\ UNCHANGED <<actuators, last, req, local, serial>>

\* self.server.read() in a reader's handler
RpcAcquireRead(t) ==
    /\ pc[t] = "waiting"
    /\ req[t].op \in Readers
    /\ ReadLockFree(lock)
    /\ lock' = [lock EXCEPT !.readers = @ \cup {t}]
    /\ pc' = [pc EXCEPT ![t] = "locked"]
    /\ UNCHANGED <<actuators, last, req, local, serial>>

\* the mutator's method reads the actuator and computes what it will store
\* and return
RpcRunMutator(t) ==
    /\ pc[t] = "locked"
    /\ req[t].op \in Mutators
    /\ \E o \in {Exec(actuators[req[t].actuator], req[t])} :
           /\ WithinBounds(o.act)
           /\ local' = [local EXCEPT ![t] = o]
    /\ pc' = [pc EXCEPT ![t] = "ran"]
    /\ UNCHANGED <<actuators, last, lock, req, serial>>

\* the mutator's method stores what it computed and returns; the statement
\* ends and the write guard is dropped
RpcReturnMutator(t) ==
    /\ pc[t] = "ran"
    /\ req[t].op \in Mutators
    /\ actuators' = [actuators EXCEPT ![req[t].actuator] = local[t].act]
    /\ \E o \in {Exec(serial.acts[req[t].actuator], req[t])} :
           serial' = Serial([serial.acts EXCEPT ![req[t].actuator] = o.act],
                            serial.agree /\ local[t].res = o.res)
    /\ local' = [local EXCEPT ![t] = Outcome(0, OkUnit)]
    /\ lock' = [lock EXCEPT !.writer = IF @ = t THEN 0 ELSE @]
    /\ req' = [req EXCEPT ![t] = NoRequest]
    /\ pc' = [pc EXCEPT ![t] = "idle"]
    /\ UNCHANGED last

\* the reader's method runs and returns; the read guard is dropped
RpcReturnReader(t) ==
    /\ pc[t] = "locked"
    /\ req[t].op \in Readers
    /\ lock' = [lock EXCEPT !.readers = @ \ {t}]
    /\ req' = [req EXCEPT ![t] = NoRequest]
    /\ pc' = [pc EXCEPT ![t] = "idle"]
    /\ UNCHANGED <<actuators, last, local, serial>>

NextRpc ==
    \E t \in Threads :
        \/ RpcCall(t)
        \/ RpcAcquireWrite(t)
        \/ RpcAcquireRead(t)
        \/ RpcRunMutator(t)
        \/ RpcReturnMutator(t)
        \/ RpcReturnReader(t)

SpecRpc == InitRpcSpec /\ [][NextRpc]_vars

(***************************************************************************)
(* Properties of the sequential specification.                             *)
(***************************************************************************)
Slots(a) == actuators[a].timeslots

\* the slots other than id whose base period overlaps period p
OverlappingSlots(a, id, p) ==
    {j \in DOMAIN Slots(a) \ {id} : PeriodOverlaps(Slots(a)[j].time_period, p)}

\* the overrides of slot id that share an applicable day with period p
OverlappingOverrides(a, id, p) ==
    {o \in DOMAIN Slots(a)[id].time_override :
        overlaps_dates(Slots(a)[id].time_override[o], p)}

\* C1: no two distinct time slots of an actuator have overlapping base periods
C1_NoBaseOverlap ==
    \A a \in DOMAIN actuators : \A i, j \in DOMAIN Slots(a) :
        i # j => ~PeriodOverlaps(Slots(a)[i].time_period, Slots(a)[j].time_period)

\* C2: time_slot_set_time_period on an existing slot decides by the merged
\* period: it fails with TimeSlotOverlap of a slot the merged period overlaps,
\* storing nothing, and succeeds when the merged period is valid and overlaps
\* no other slot
C2_SetPeriodChecksMerged ==
    \A a \in DOMAIN actuators : \A id \in DOMAIN Slots(a) : \A p \in PartialPeriods :
        LET merged == MergePeriod(Slots(a)[id].time_period, p)
            hit == OverlappingSlots(a, id, merged)
            o == time_slot_set_time_period(actuators[a], id, p)
        IN  /\ hit # {} =>
                /\ o.res.err = "TimeSlotOverlap"
                /\ o.res.id \in hit
                /\ o.act = actuators[a]
            /\ (hit = {} /\ TimePeriodValid(merged)) => o.res.ok

\* whether no two entries of a day's list have intersecting time intervals
ConflictFree(slots) ==
    \A i, j \in 1 .. Len(slots) :
        i # j => ~TimeIntervalOverlaps(slots[i].time_interval, slots[j].time_interval)

\* C3: every day of a schedule returned by get_schedule is conflict-free
C3_ScheduleConflictFree ==
    last.op = "get_schedule" =>
        \A d \in DOMAIN last.schedule : ConflictFree(last.schedule[d])

\* C4: a mutator call that returns an error leaves the actuator as it was
C4_ErrorLeavesStateUnchanged ==
    [][(last'.op \in Mutators /\ ~last'.res.ok) => actuators' = actuators]_vars

\* C4 witness: removing an override id the slot does not hold has failed,
\* on an actuator that holds a slot with an override
C4_Witness ==
    /\ last.op = "time_slot_remove_time_override"
    /\ last.res.err = "InvalidArgument(TimeOverrideId)"
    /\ \E id \in DOMAIN Slots(TheActuator) : Slots(TheActuator)[id].time_override # EmptyMap

\* C5 as stated: a valid override candidate that shares a day with an override
\* of the target slot fails with TimeOverrideOverlap of such an override
C5_OverrideOverlapAlwaysReported ==
    \A a \in DOMAIN actuators : \A id \in DOMAIN Slots(a) : \A p \in OverridePeriods :
        LET o == time_slot_add_time_override(actuators[a], id, p)
        IN  (TimePeriodValid(p) /\ OverlappingOverrides(a, id, p) # {}) =>
                /\ o.res.err = "TimeOverrideOverlap"
                /\ o.res.id \in OverlappingOverrides(a, id, p)

\* C5 (amended): the overrides of one slot are pairwise date-disjoint, and a
\* valid candidate that shares a day with an override of the target slot is
\* never stored: the call fails with TimeSlotOverlap of the lowest-id other
\* slot whose base period overlaps the candidate when there is one, and else
\* with TimeOverrideOverlap of the lowest-id override sharing a day with it
C5_OverridesDateDisjoint ==
    \A a \in DOMAIN actuators : \A id \in DOMAIN Slots(a) :
        /\ \A o1, o2 \in DOMAIN Slots(a)[id].time_override :
               o1 # o2 => ~overlaps_dates(Slots(a)[id].time_override[o1],
                                          Slots(a)[id].time_override[o2])
        /\ \A p \in OverridePeriods :
               LET o == time_slot_add_time_override(actuators[a], id, p)
                   others == OverlappingSlots(a, id, p)
                   ours == OverlappingOverrides(a, id, p)
               IN  (TimePeriodValid(p) /\ ours # {}) =>
                       /\ o.act = actuators[a]
                       /\ o.res = IF others # {}
                                  THEN ErrId("TimeSlotOverlap", MinOf(others))
                                  ELSE ErrId("TimeOverrideOverlap", MinOf(ours))

\* C5 witness: a slot holds two overrides and a third candidate, at a time of
\* day disjoint from the override it shares its day with, has been rejected
C5_Witness ==
    /\ last.op = "time_slot_add_time_override"
    /\ last.res.err = "TimeOverrideOverlap"
    /\ \E id \in DOMAIN Slots(TheActuator) :
           /\ Cardinality(DOMAIN Slots(TheActuator)[id].time_override) = 2
           /\ \E p \in OverridePeriods :
                  /\ time_slot_add_time_override(actuators[TheActuator], id, p).res = last.res
                  /\ ~TimeIntervalOverlaps(
                         Slots(TheActuator)[id].time_override[last.res.id].time_interval,
                         p.time_interval)

\* C6: next_timeslot_id starts at 0 and exceeds every id in the map; a
\* successful add_time_slot returns the counter and raises it by 1; no other
\* call, and no failed add_time_slot, changes it
C6_TimeSlotIdsNeverReused ==
    /\ \A a \in DOMAIN actuators : actuators[a].next_timeslot_id = 0
    /\ [](\A a \in DOMAIN actuators : \A id \in DOMAIN Slots(a) :
              id < actuators[a].next_timeslot_id)
    /\ [][\A a \in DOMAIN actuators :
            IF last'.op = "add_time_slot" /\ last'.res.ok
            THEN /\ last'.res.id = actuators[a].next_timeslot_id
                 /\ actuators'[a].next_timeslot_id = actuators[a].next_timeslot_id + 1
                 /\ DOMAIN actuators'[a].timeslots = DOMAIN Slots(a) \cup {last'.res.id}
            ELSE actuators'[a].next_timeslot_id = actuators[a].next_timeslot_id]_vars

\* C6 witness: add_time_slot has returned id 1 while id 0, removed before, is free
C6_Witness ==
    /\ last.op = "add_time_slot"
    /\ last.res = Ok(1)
    /\ DOMAIN Slots(TheActuator) = {1}

\* the override ids stored in slot id
OverrideIdsOf(a, id) == DOMAIN Slots(a)[id].time_override

\* C7: no override id is stored in two slots, every stored override id is
\* below next_override_id; a successful time_slot_add_time_override returns
\* the counter and raises it by 1; no other call, and no failed one, changes it
C7_OverrideIdsNeverReused ==
    /\ [](\A a \in DOMAIN actuators : \A i, j \in DOMAIN Slots(a) :
              /\ \A o \in OverrideIdsOf(a, i) : o < actuators[a].next_override_id
              /\ i # j => OverrideIdsOf(a, i) \cap OverrideIdsOf(a, j) = {})
    /\ [][\A a \in DOMAIN actuators :
            IF last'.op = "time_slot_add_time_override" /\ last'.res.ok
            THEN /\ last'.res.id = actuators[a].next_override_id
                 /\ actuators'[a].next_override_id = actuators[a].next_override_id + 1
            ELSE actuators'[a].next_override_id = actuators[a].next_override_id]_vars

\* C7 witness: an override was added to slot 1 with id 1 after the slot that
\* held override 0 was removed
C7_Witness ==
    /\ last.op = "time_slot_add_time_override"
    /\ last.res = Ok(1)
    /\ DOMAIN Slots(TheActuator) = {1}
    /\ OverrideIdsOf(TheActuator, 1) = {1}

\* C10: add_time_slot with a valid period and state fails with
\* TimeSlotOverlap of the lowest-id slot overlapping the candidate when there
\* is one and succeeds otherwise; of two mutually overlapping periods that
\* could each be added, the one added second fails with the id of the first
C10_AddFailsIffOverlap ==
    \A a \in DOMAIN actuators : \A p \in AddPeriods, s \in States, e \in Enableds :
        LET o == add_time_slot(actuators[a], p, s, e)
            hit == OverlappingSlots(a, -1, p)
        IN  (TimePeriodValid(p) /\ valid_state(actuators[a], s)) =>
                /\ hit # {} => /\ o.res = ErrId("TimeSlotOverlap", MinOf(hit))
                               /\ o.act = actuators[a]
                /\ hit = {} =>
                       /\ o.res = Ok(actuators[a].next_timeslot_id)
                       /\ \A q \in AddPeriods :
                              (TimePeriodValid(q) /\ PeriodOverlaps(p, q)
                                  /\ OverlappingSlots(a, -1, q) = {}) =>
                                  /\ add_time_slot(o.act, q, s, e).res =
                                         ErrId("TimeSlotOverlap", o.res.id)
                                  /\ add_time_slot(add_time_slot(actuators[a], q, s, e).act,
                                                   p, s, e).res =
                                         ErrId("TimeSlotOverlap", o.res.id)

\* C10 witness: add_time_slot has failed on a candidate that two slots
\* overlap, reporting the lower id
C10_Witness ==
    /\ last.op = "add_time_slot"
    /\ last.res = ErrId("TimeSlotOverlap", 0)
    /\ \E p \in AddPeriods :
           /\ TimePeriodValid(p)
           /\ OverlappingSlots(TheActuator, -1, p) = {0, 1}

(***************************************************************************)
(* Properties of the RPC specification.                                    *)
(***************************************************************************)
\* whether thread t holds the lock and runs its method
InProgress(t) == pc[t] \in {"locked", "ran"}

\* C8: while a mutator is in progress no other mutator and no reader is; the
\* actuators, and every result returned, are those of the requests run one
\* at a time in the order they returned; no two slots of an actuator overlap
C8_MutatorsExclusive ==
    /\ \A t1, t2 \in Threads :
           (t1 # t2 /\ InProgress(t1) /\ req[t1].op \in Mutators) => ~InProgress(t2)
    /\ serial.agree
    /\ serial.acts = actuators
    /\ C1_NoBaseOverlap

\* C8 witness: an add_time_slot has computed its result and holds the lock
\* while another thread waits to add an overlapping period to the same
\* actuator
C8_Witness ==
    \E t1, t2 \in Threads :
        /\ pc[t1] = "ran" /\ req[t1].op = "add_time_slot" /\ local[t1].res.ok
        /\ pc[t2] = "waiting" /\ req[t2].op = "add_time_slot"
        /\ req[t1].actuator = req[t2].actuator
        /\ req[t1].period # req[t2].period
        /\ PeriodOverlaps(req[t1].period, req[t2].period)

\* C9: a mutator call on one actuator never has to wait for a mutator in
\* progress on another actuator
C9_DifferentActuatorsIndependent ==
    \A t1, t2 \in Threads :
        (/\ t1 # t2
         /\ InProgress(t1) /\ req[t1].op \in Mutators
         /\ pc[t2] = "waiting" /\ req[t2].op \in Mutators
         /\ req[t1].actuator # req[t2].actuator)
        => ENABLED RpcAcquireWrite(t2)

(***************************************************************************)
(* Further properties of the sequential specification.                     *)
(***************************************************************************)
\* C11: time_slot_set_time_period on an existing slot with the all-sentinel
\* partial period returns Ok(()) and leaves the actuator, and so every stored
\* period, as it was
C11_AllSentinelIsNoOp ==
    \A a \in DOMAIN actuators : \A id \in DOMAIN Slots(a) :
        time_slot_set_time_period(actuators[a], id, NoPeriod)
            = Outcome(actuators[a], OkUnit)

\* C11 witness: time_slot_set_time_period has succeeded and the only slot
\* holds a period that no other partial period of PartialPeriods leaves
\* behind (two weekdays, end time 2), so the call was the all-sentinel one
C11_Witness ==
    /\ last.op = "time_slot_set_time_period"
    /\ last.res.ok
    /\ DOMAIN Slots(TheActuator) = {0}
    /\ Slots(TheActuator)[0].time_period
           = TimePeriod(TimeInterval(0, 2), DateRange(0, 1), {0, 1})

\* whether a day's list ascends by start time, entries of equal start time
\* in ascending timeslot_id order
SortedStable(slots) ==
    \A i, j \in 1 .. Len(slots) :
        i < j =>
            \/ slots[i].time_interval.start < slots[j].time_interval.start
            \/ /\ slots[i].time_interval.start = slots[j].time_interval.start
               /\ slots[i].timeslot_id < slots[j].timeslot_id

\* C12: every day of a schedule returned by get_schedule ascends by start
\* time with ties in ascending timeslot_id order, and the time-slot map
\* determines the schedule
C12_ScheduleSortedStable ==
    /\ last.op = "get_schedule" =>
           \A d \in DOMAIN last.schedule : SortedStable(last.schedule[d])
    /\ \A a \in DOMAIN actuators : Cardinality(compute(Slots(a), 0, NbDays)) = 1

\* whether slot id has an entry in a day's list
Appears(slots, id) == \E i \in 1 .. Len(slots) : slots[i].timeslot_id = id

\* whether the base period or an override of slot ts covers the date
AppliesOn(ts, date) ==
    \/ PeriodCovers(ts.time_period, date)
    \/ \E o \in DOMAIN ts.time_override : PeriodCovers(ts.time_override[o], date)

\* C13: no entry of a schedule returned by get_schedule belongs to a disabled
\* slot; after time_slot_set_enabled(id, FALSE) slot id is in no day of the
\* schedule, and after time_slot_set_enabled(id, TRUE) it is in exactly the
\* days its base period or one of its overrides covers
C13_DisabledNeverScheduled ==
    /\ last.op = "get_schedule" =>
           \A d \in DOMAIN last.schedule : \A i \in 1 .. Len(last.schedule[d]) :
               Slots(TheActuator)[last.schedule[d][i].timeslot_id].enabled
    /\ \A a \in DOMAIN actuators : \A id \in DOMAIN Slots(a) : \A e \in BOOLEAN :
           LET o == time_slot_set_enabled(actuators[a], id, e)
           IN  /\ o.res.ok
               /\ \A sch \in compute(o.act.timeslots, 0, NbDays) : \A d \in DOMAIN sch :
                      Appears(sch[d], id) <=> (e /\ AppliesOn(o.act.timeslots[id], d))

\* C13 witness: get_schedule has returned a schedule with an entry while a
\* disabled slot holds an override and a base period that each cover a date
\* of the schedule
C13_Witness ==
    /\ last.op = "get_schedule"
    /\ \E d \in DOMAIN last.schedule : last.schedule[d] # <<>>
    /\ \E id \in DOMAIN Slots(TheActuator) :
           LET ts == Slots(TheActuator)[id]
           IN  /\ ~ts.enabled
               /\ \E d \in DOMAIN last.schedule : PeriodCovers(ts.time_period, d)
               /\ \E d \in DOMAIN last.schedule : \E o \in DOMAIN ts.time_override :
                      PeriodCovers(ts.time_override[o], d)

\* the positions of slot id's entries in a day's list
EntriesOf(slots, id) == {i \in 1 .. Len(slots) : slots[i].timeslot_id = id}

\* the overrides of slot ts that cover the date
CoveringOverrides(ts, date) ==
    {o \in DOMAIN ts.time_override : PeriodCovers(ts.time_override[o], date)}

\* C14: in every schedule of the time slots, an enabled slot has on a date an
\* override covers exactly one entry, with that override's interval and id; on
\* a date only its base period covers exactly one entry, with the base
\* interval and no override id; on any other date no entry
C14_OverridePrecedence ==
    \A a \in DOMAIN actuators : \A sch \in compute(Slots(a), 0, NbDays) :
        \A d \in DOMAIN sch : \A id \in DOMAIN Slots(a) :
            LET ts == Slots(a)[id]
                entries == EntriesOf(sch[d], id)
                covering == CoveringOverrides(ts, d)
            IN  ts.enabled =>
                    IF covering # {}
                    THEN /\ Cardinality(entries) = 1
                         /\ \A i \in entries :
                                /\ sch[d][i].override_id \in covering
                                /\ sch[d][i].time_interval =
                                       ts.time_override[sch[d][i].override_id].time_interval
                    ELSE IF PeriodCovers(ts.time_period, d)
                    THEN /\ Cardinality(entries) = 1
                         /\ \A i \in entries :
                                /\ sch[d][i].override_id = -1
                                /\ sch[d][i].time_interval = ts.time_period.time_interval
                    ELSE entries = {}

\* C14 witness: get_schedule has returned, for one slot, an entry with an
\* override's id and an interval that is not the base interval on one date,
\* and an entry with the base interval and no override id on another
C14_Witness ==
    /\ last.op = "get_schedule"
    /\ \E id \in DOMAIN Slots(TheActuator) : \E d1, d2 \in DOMAIN last.schedule :
           /\ \E i \in EntriesOf(last.schedule[d1], id) :
                  /\ last.schedule[d1][i].override_id # -1
                  /\ last.schedule[d1][i].time_interval
                         # Slots(TheActuator)[id].time_period.time_interval
           /\ \E i \in EntriesOf(last.schedule[d2], id) :
                  last.schedule[d2][i].override_id = -1

\* start dates given to Schedule::compute
StartDates == {0, 1}

\* C15: for every start date and every number of days up to NbDays (0
\* included) a schedule of the time slots has exactly the dates start_date ..
\* start_date + nb_days - 1 as keys and at most one entry per time slot in a
\* day, each of a slot of the map; get_schedule leaves the actuator unchanged
C15_ScheduleKeysAndFrame ==
    /\ [](\A a \in DOMAIN actuators : \A start_date \in StartDates :
              \A nb_days \in 0 .. NbDays :
                  \A sch \in compute(Slots(a), start_date, nb_days) :
                      /\ DOMAIN sch = start_date .. (start_date + nb_days - 1)
                      /\ \A d \in DOMAIN sch :
                             /\ \A id \in DOMAIN Slots(a) :
                                    Cardinality(EntriesOf(sch[d], id)) <= 1
                             /\ \A i \in 1 .. Len(sch[d]) :
                                    sch[d][i].timeslot_id \in DOMAIN Slots(a))
    /\ [][last'.op = "get_schedule" =>
              /\ actuators' = actuators
              /\ last'.schedule \in compute(Slots(TheActuator), 0, NbDays)]_vars

\* C15 witness: get_schedule has returned a schedule over all NbDays dates
\* in which one day's list is empty and another day's is not
C15_Witness ==
    /\ last.op = "get_schedule"
    /\ DOMAIN last.schedule = 0 .. (NbDays - 1)
    /\ \E d1, d2 \in DOMAIN last.schedule :
           /\ last.schedule[d1] = <<>>
           /\ last.schedule[d2] # <<>>

\* actuator a with the enabled flag of every slot set to f
WithEnabled(a, f) ==
    [a EXCEPT !.timeslots = [id \in DOMAIN @ |-> [@[id] EXCEPT !.enabled = f]]]

\* C16: what add_time_slot, time_slot_set_time_period and
\* time_slot_add_time_override return is the same whatever the enabled flags
\* of the slots are; add_time_slot with valid arguments and a period that a
\* disabled slot overlaps fails with TimeSlotOverlap; time_slot_set_enabled
\* changes the result of no add_time_slot
C16_DisabledSlotKeepsReservation ==
    \A a \in DOMAIN actuators :
        LET A == actuators[a]
        IN  /\ \A f \in BOOLEAN :
                /\ \A p \in AddPeriods, s \in States, e \in Enableds :
                       add_time_slot(WithEnabled(A, f), p, s, e).res
                           = add_time_slot(A, p, s, e).res
                /\ \A id \in TimeSlotIds, p \in PartialPeriods :
                       time_slot_set_time_period(WithEnabled(A, f), id, p).res
                           = time_slot_set_time_period(A, id, p).res
                /\ \A id \in TimeSlotIds, p \in OverridePeriods :
                       time_slot_add_time_override(WithEnabled(A, f), id, p).res
                           = time_slot_add_time_override(A, id, p).res
            /\ \A p \in AddPeriods, s \in States :
                   LET r == add_time_slot(A, p, s, TRUE).res
                   IN  /\ (/\ TimePeriodValid(p)
                           /\ valid_state(A, s)
                           /\ \E j \in DOMAIN A.timeslots :
                                  /\ ~A.timeslots[j].enabled
                                  /\ PeriodOverlaps(A.timeslots[j].time_period, p))
                          => (r.err = "TimeSlotOverlap" /\ r.id \in OverlappingSlots(a, -1, p))
                       /\ \A id \in DOMAIN A.timeslots, f \in BOOLEAN :
                              add_time_slot(time_slot_set_enabled(A, id, f).act,
                                            p, s, TRUE).res = r

\* C16 witness: add_time_slot has failed with TimeSlotOverlap of a slot while
\* every slot of the actuator is disabled
C16_Witness ==
    /\ last.op = "add_time_slot"
    /\ last.res.err = "TimeSlotOverlap"
    /\ last.res.id \in DOMAIN Slots(TheActuator)
    /\ \A id \in DOMAIN Slots(TheActuator) : ~Slots(TheActuator)[id].enabled

\* the ids the calls name that are not in the time-slot map of actuator a
UnknownSlotIds(a) == TimeSlotIds \ DOMAIN Slots(a)

\* C17 as stated: every slot-scoped call with a slot id that is not in the
\* map fails with InvalidArgument(TimeSlotId) whatever its other arguments;
\* time_slot_remove_time_override on a slot of the map with an override id
\* the slot does not hold fails with InvalidArgument(TimeOverrideId)
C17_UnknownSlotIdAlwaysReported ==
    \A a \in DOMAIN actuators :
        LET A == actuators[a]
            unknown == Err("InvalidArgument(TimeSlotId)")
        IN  /\ \A id \in UnknownSlotIds(a) :
                /\ remove_time_slot(A, id).res = unknown
                /\ \A p \in PartialPeriods :
                       time_slot_set_time_period(A, id, p).res = unknown
                /\ \A e \in Enableds : time_slot_set_enabled(A, id, e).res = unknown
                /\ \A s \in States :
                       time_slot_set_actuator_state(A, id, s).res = unknown
                /\ \A p \in OverridePeriods :
                       time_slot_add_time_override(A, id, p).res = unknown
                /\ \A ov \in OverrideIds :
                       time_slot_remove_time_override(A, id, ov).res = unknown
            /\ \A id \in DOMAIN Slots(a) : \A ov \in OverrideIds \ OverrideIdsOf(a, id) :
                   time_slot_remove_time_override(A, id, ov).res
                       = Err("InvalidArgument(TimeOverrideId)")

\* C17 (amended): every slot-scoped call with a slot id that is not in the
\* map fails and leaves the actuator as it was.  The error is
\* InvalidArgument(TimeSlotId) unless an earlier check of the call fails:
\* time_slot_set_actuator_state reports an invalid state first,
\* time_slot_add_time_override an invalid period and then the lowest-id slot
\* whose period overlaps the candidate, time_slot_set_time_period the
\* lowest-id slot whose period overlaps the partial period.
\* time_slot_remove_time_override on a slot of the map with an override id
\* the slot does not hold fails with InvalidArgument(TimeOverrideId).
C17_UnknownSlotIdRejected ==
    \A a \in DOMAIN actuators :
        LET A == actuators[a]
            unknown == Err("InvalidArgument(TimeSlotId)")
            overlap(p) == ErrId("TimeSlotOverlap", MinOf(OverlappingSlots(a, -1, p)))
        IN  /\ \A id \in UnknownSlotIds(a) :
                /\ remove_time_slot(A, id) = Outcome(A, unknown)
                /\ \A p \in PartialPeriods :
                       time_slot_set_time_period(A, id, p) =
                           Outcome(A, IF OverlappingSlots(a, -1, p) # {}
                                      THEN overlap(p) ELSE unknown)
                /\ \A e \in Enableds :
                       time_slot_set_enabled(A, id, e) = Outcome(A, unknown)
                /\ \A s \in States :
                       time_slot_set_actuator_state(A, id, s) =
                           Outcome(A, IF ~valid_state(A, s)
                                      THEN Err("InvalidArgument(ActuatorState)")
                                      ELSE unknown)
                /\ \A p \in OverridePeriods :
                       time_slot_add_time_override(A, id, p) =
                           Outcome(A, IF ~TimePeriodValid(p)
                                      THEN Err("InvalidArgument(TimePeriod)")
                                      ELSE IF OverlappingSlots(a, -1, p) # {}
                                      THEN overlap(p) ELSE unknown)
                /\ \A ov \in OverrideIds :
                       time_slot_remove_time_override(A, id, ov) = Outcome(A, unknown)
            /\ \A id \in DOMAIN Slots(a) : \A ov \in OverrideIds \ OverrideIdsOf(a, id) :
                   time_slot_remove_time_override(A, id, ov)
                       = Outcome(A, Err("InvalidArgument(TimeOverrideId)"))

\* C17 witness: time_slot_add_time_override has failed with
\* InvalidArgument(TimeSlotId) on an actuator that holds a slot, and a
\* time_slot_set_time_period on an id not in the map would report that slot
C17_Witness ==
    /\ last.op = "time_slot_add_time_override"
    /\ last.res = Err("InvalidArgument(TimeSlotId)")
    /\ Cardinality(DOMAIN Slots(TheActuator)) = 1
    /\ \E id \in UnknownSlotIds(TheActuator) : \E p \in PartialPeriods :
           time_slot_set_time_period(actuators[TheActuator], id, p).res.err
               = "TimeSlotOverlap"

\* partial periods with one field set each, given to
\* time_slot_set_time_period beside PartialPeriods where the call is examined
\* without being made a step
FieldPartials ==
    {TimePeriod(TimeInterval(1, EMPTY), DateRange(empty_date, empty_date), {}),
     TimePeriod(TimeInterval(EMPTY, 1), DateRange(empty_date, empty_date), {}),
     TimePeriod(TimeInterval(EMPTY, EMPTY), DateRange(1, empty_date), {}),
     TimePeriod(TimeInterval(EMPTY, EMPTY), DateRange(empty_date, 0), {}),
     TimePeriod(TimeInterval(EMPTY, EMPTY), DateRange(empty_date, empty_date), {0})}

\* field v of a partial period written over the stored field w: v unless it
\* is the sentinel
Written(v, sentinel, w) == IF v # sentinel THEN v ELSE w

\* C18: a successful time_slot_set_time_period(id, p) leaves in each of the
\* five fields of slot id's period the field of p when it is not a sentinel
\* and the previous value otherwise, and changes nothing else of the actuator
C18_SetPeriodMergesFields ==
    \A a \in DOMAIN actuators : \A id \in DOMAIN Slots(a) :
      \A p \in PartialPeriods \cup FieldPartials :
        LET o == time_slot_set_time_period(actuators[a], id, p)
            old == Slots(a)[id].time_period
            new == o.act.timeslots[id].time_period
        IN  o.res.ok =>
                /\ new.time_interval.start
                       = Written(p.time_interval.start, EMPTY, old.time_interval.start)
                /\ new.time_interval.end
                       = Written(p.time_interval.end, EMPTY, old.time_interval.end)
                /\ new.date_range.start
                       = Written(p.date_range.start, empty_date, old.date_range.start)
                /\ new.date_range.end
                       = Written(p.date_range.end, empty_date, old.date_range.end)
                /\ new.days = Written(p.days, {}, old.days)
                /\ o.act = [actuators[a] EXCEPT !.timeslots[id].time_period = new]

\* C18 witness: time_slot_set_time_period has succeeded and a slot that holds
\* an override has the period (0,2) on dates 0..1, weekdays {1}, which only a
\* weekdays-only update of a slot added with weekdays {0, 1} leaves
C18_Witness ==
    /\ last.op = "time_slot_set_time_period"
    /\ last.res.ok
    /\ \E id \in DOMAIN Slots(TheActuator) :
           /\ Slots(TheActuator)[id].time_period
                  = TimePeriod(TimeInterval(0, 2), DateRange(0, 1), {1})
           /\ Slots(TheActuator)[id].time_override # EmptyMap

\* whether a state matches an actuator type: a Toggle state for Toggle, a
\* float within [min, max] for FloatValue
StateMatchesType(type, state) ==
    \/ type.tag = "Toggle" /\ state.tag = "Toggle"
    \/ /\ type.tag = "FloatValue"
       /\ state.tag = "FloatValue"
       /\ type.min <= state.value
       /\ state.value <= type.max

\* whether the default state and the state of every slot match the type
StatesValid(A) ==
    /\ StateMatchesType(A.info, A.default_state)
    /\ \A id \in DOMAIN A.timeslots :
           StateMatchesType(A.info, A.timeslots[id].actuator_state)

\* C19 as stated: the stored states match the actuator's type, and
\* set_default_state, add_time_slot and time_slot_set_actuator_state fail
\* with InvalidArgument(ActuatorState) on every state that does not
C19_InvalidStateAlwaysReported ==
    \A a \in DOMAIN actuators :
        LET A == actuators[a]
            invalid == Err("InvalidArgument(ActuatorState)")
        IN  /\ StatesValid(A)
            /\ \A s \in States :
                   ~StateMatchesType(A.info, s) =>
                       /\ set_default_state(A, s).res = invalid
                       /\ \A p \in AddPeriods, e \in Enableds :
                              add_time_slot(A, p, s, e).res = invalid
                       /\ \A id \in TimeSlotIds :
                              time_slot_set_actuator_state(A, id, s).res = invalid

\* C19 (amended): the stored states match the actuator's type; on a state
\* that does not, set_default_state and time_slot_set_actuator_state fail
\* with InvalidArgument(ActuatorState), add_time_slot fails with
\* InvalidArgument(TimePeriod) when its period is invalid and with
\* InvalidArgument(ActuatorState) otherwise, and the actuator is unchanged
C19_StatesValid ==
    \A a \in DOMAIN actuators :
        LET A == actuators[a]
            invalid == Err("InvalidArgument(ActuatorState)")
        IN  /\ StatesValid(A)
            /\ \A s \in States :
                   ~StateMatchesType(A.info, s) =>
                       /\ set_default_state(A, s) = Outcome(A, invalid)
                       /\ \A p \in AddPeriods, e \in Enableds :
                              add_time_slot(A, p, s, e) =
                                  Outcome(A, IF ~TimePeriodValid(p)
                                             THEN Err("InvalidArgument(TimePeriod)")
                                             ELSE invalid)
                       /\ \A id \in TimeSlotIds :
                              time_slot_set_actuator_state(A, id, s) = Outcome(A, invalid)

\* C19 witness: on a FloatValue actuator that holds a slot,
\* time_slot_set_actuator_state has failed with InvalidArgument(ActuatorState)
C19_Witness ==
    /\ last.op = "time_slot_set_actuator_state"
    /\ last.res = Err("InvalidArgument(ActuatorState)")
    /\ actuators[TheActuator].info.tag = "FloatValue"
    /\ \E id \in DOMAIN Slots(TheActuator) :
           Slots(TheActuator)[id].actuator_state = FloatValue(1)

\* a period with every field set whose date range ends before it starts
MalformedPartial == TimePeriod(TimeInterval(0, 1), DateRange(1, 0), {0})

\* whether the base period and every override of every slot is valid
PeriodsValid(A) ==
    \A id \in DOMAIN A.timeslots :
        /\ TimePeriodValid(A.timeslots[id].time_period)
        /\ \A o \in DOMAIN A.timeslots[id].time_override :
               TimePeriodValid(A.timeslots[id].time_override[o])

\* C20 as stated: every stored period is valid; add_time_slot and
\* time_slot_add_time_override fail with InvalidArgument(TimePeriod) on an
\* invalid period, and so does time_slot_set_time_period on a slot of the map
\* whenever the merged period is invalid
C20_InvalidPeriodAlwaysReported ==
    \A a \in DOMAIN actuators :
        LET A == actuators[a]
            invalid == Err("InvalidArgument(TimePeriod)")
        IN  /\ PeriodsValid(A)
            /\ \A p \in AddPeriods, s \in States, e \in Enableds :
                   ~TimePeriodValid(p) => add_time_slot(A, p, s, e).res = invalid
            /\ \A id \in TimeSlotIds, p \in OverridePeriods :
                   ~TimePeriodValid(p) =>
                       time_slot_add_time_override(A, id, p).res = invalid
            /\ \A id \in DOMAIN Slots(a) :
                 \A p \in PartialPeriods \cup FieldPartials \cup {MalformedPartial} :
                   ~TimePeriodValid(MergePeriod(Slots(a)[id].time_period, p)) =>
                       time_slot_set_time_period(A, id, p).res = invalid

\* C20 (amended): every stored period is valid; add_time_slot and
\* time_slot_add_time_override fail with InvalidArgument(TimePeriod) on an
\* invalid period; time_slot_set_time_period on a slot of the map fails
\* whenever the merged period is invalid, with TimeSlotOverlap of the
\* lowest-id other slot whose period overlaps the partial period when there
\* is one and with InvalidArgument(TimePeriod) otherwise; the actuator is
\* unchanged by each of these calls
C20_PeriodsValid ==
    \A a \in DOMAIN actuators :
        LET A == actuators[a]
            invalid == Err("InvalidArgument(TimePeriod)")
        IN  /\ PeriodsValid(A)
            /\ \A p \in AddPeriods, s \in States, e \in Enableds :
                   ~TimePeriodValid(p) => add_time_slot(A, p, s, e) = Outcome(A, invalid)
            /\ \A id \in TimeSlotIds, p \in OverridePeriods :
                   ~TimePeriodValid(p) =>
                       time_slot_add_time_override(A, id, p) = Outcome(A, invalid)
            /\ \A id \in DOMAIN Slots(a) :
                 \A p \in PartialPeriods \cup FieldPartials \cup {MalformedPartial} :
                   ~TimePeriodValid(MergePeriod(Slots(a)[id].time_period, p)) =>
                       time_slot_set_time_period(A, id, p) =
                           Outcome(A, IF OverlappingSlots(a, id, p) # {}
                                      THEN ErrId("TimeSlotOverlap",
                                                 MinOf(OverlappingSlots(a, id, p)))
                                      ELSE invalid)

\* C20 witness: time_slot_set_time_period has failed with
\* InvalidArgument(TimePeriod) on an actuator with two slots, one of which
\* holds an override
C20_Witness ==
    /\ last.op = "time_slot_set_time_period"
    /\ last.res = Err("InvalidArgument(TimePeriod)")
    /\ Cardinality(DOMAIN Slots(TheActuator)) = 2
    /\ \E id \in DOMAIN Slots(TheActuator) :
           Slots(TheActuator)[id].time_override # EmptyMap

====
